---- MODULE Spec2Model ----
(***************************************************************************)
(* A model of build_wayback_site.py: the path mapper with its conflict     *)
(* pass, the download loop of main, and the URL / markup rewriter.         *)
(*                                                                         *)
(* SpecSelect is the selection of main (lines 451-481) on every short list *)
(* of records; Spec is main from the index query to its return, with the   *)
(* outcomes of every fetch and write chosen by the environment;            *)
(* SpecRewrite applies the rewriter, once and twice, to URL values and to  *)
(* HTML and CSS texts.                                                     *)
(*                                                                         *)
(* A Python str is a sequence of one-character strings, so that strip,     *)
(* split, startswith, concatenation and the regular expressions of the     *)
(* source are computed on characters, as the source computes them.         *)
(*                                                                         *)
(* TLC evaluates an operator's argument each time the operator reads its   *)
(* parameter.  An operator that reads a parameter more than once therefore *)
(* binds its value first: the parameter is written with a trailing         *)
(* underscore (s_) and its value is bound by \E s \in {s_} or by           *)
(* Only({... : s \in {s_}}).                                               *)
(***************************************************************************)
EXTENDS Naturals, Integers, Sequences, FiniteSets, TLC

\* The element of a set of one element
Only(S) == CHOOSE x \in S : TRUE

\* ------------------------------------------------------------------------
\* Python's str methods, on sequences of characters
\* ------------------------------------------------------------------------

Digits == {"0", "1", "2", "3", "4", "5", "6", "7", "8", "9"}

UpperSeq == << "A", "B", "C", "D", "E", "F", "G", "H", "I", "J", "K", "L", "M",
               "N", "O", "P", "Q", "R", "S", "T", "U", "V", "W", "X", "Y", "Z" >>

LowerSeq == << "a", "b", "c", "d", "e", "f", "g", "h", "i", "j", "k", "l", "m",
               "n", "o", "p", "q", "r", "s", "t", "u", "v", "w", "x", "y", "z" >>

UpperLetters == {UpperSeq[k] : k \in 1..26}

LowerLetters == {LowerSeq[k] : k \in 1..26}

Letters == UpperLetters \cup LowerLetters

\* str.strip() with no argument strips white space
Whitespace == {" ", "\t", "\n", "\r", "\f"}

\* s[n:]
Drop(s_, n) == Only({SubSeq(s, n + 1, Len(s)) : s \in {s_}})

\* s[:n]
Take(s, n) == SubSeq(s, 1, n)

startswith(s_, p_) ==
    \E s \in {s_}, p \in {p_} : Len(p) <= Len(s) /\ SubSeq(s, 1, Len(p)) = p

endswith(s_, p_) ==
    \E s \in {s_}, p \in {p_} :
        Len(p) <= Len(s) /\ SubSeq(s, Len(s) - Len(p) + 1, Len(s)) = p

\* p in s
contains(s_, p_) ==
    \E s \in {s_}, p \in {p_} :
        \E k \in 1..(Len(s) + 1 - Len(p)) : SubSeq(s, k, k + Len(p) - 1) = p

\* s.find(c) + 1 for the first character of s that is in cs: 0 when there is none
find(s_, cs_) ==
    Only({IF \E k \in 1..Len(s) : s[k] \in cs
          THEN CHOOSE k \in 1..Len(s) : s[k] \in cs /\ \A j \in 1..(k - 1) : s[j] \notin cs
          ELSE 0 : s \in {s_}, cs \in {cs_}})

\* s.rfind(c) + 1
rfind(s_, cs_) ==
    Only({IF \E k \in 1..Len(s) : s[k] \in cs
          THEN CHOOSE k \in 1..Len(s) : s[k] \in cs /\ \A j \in (k + 1)..Len(s) : s[j] \notin cs
          ELSE 0 : s \in {s_}, cs \in {cs_}})

\* s.lower(), on ASCII
lower(s_) ==
    Only({[k \in 1..Len(s) |->
              IF s[k] \in UpperLetters
              THEN LowerSeq[CHOOSE j \in 1..26 : UpperSeq[j] = s[k]] ELSE s[k]]
          : s \in {s_}})

\* s.lstrip(cs): the characters of cs taken off the left end
lstrip(s_, cs_) ==
    Only({IF \E k \in 1..Len(s) : s[k] \notin cs
          THEN SubSeq(s, CHOOSE k \in 1..Len(s) :
                             s[k] \notin cs /\ \A j \in 1..(k - 1) : s[j] \in cs, Len(s))
          ELSE << >> : s \in {s_}, cs \in {cs_}})

rstrip(s_, cs_) ==
    Only({IF \E k \in 1..Len(s) : s[k] \notin cs
          THEN SubSeq(s, 1, CHOOSE k \in 1..Len(s) :
                                s[k] \notin cs /\ \A j \in (k + 1)..Len(s) : s[j] \in cs)
          ELSE << >> : s \in {s_}, cs \in {cs_}})

strip(s) == rstrip(lstrip(s, Whitespace), Whitespace)

\* s.split(c): the parts between the occurrences of the character c
RECURSIVE split(_, _)
split(s_, c) ==
    Only({Only({IF k = 0 THEN << s >> ELSE << Take(s, k - 1) >> \o split(Drop(s, k), c)
                : k \in {find(s, {c})}}) : s \in {s_}})

\* s.split(c, 1)[0]
split1_head(s_, c) ==
    Only({Only({IF k = 0 THEN s ELSE Take(s, k - 1) : k \in {find(s, {c})}}) : s \in {s_}})

\* s.split(c, 1)[1], for an s that holds c
split1_tail(s_, c) == Only({Drop(s, find(s, {c})) : s \in {s_}})

\* c.join(parts)
RECURSIVE join(_, _)
join(parts_, c) ==
    Only({IF Len(parts) = 0 THEN << >>
          ELSE IF Len(parts) = 1 THEN parts[1]
          ELSE parts[1] \o << c >> \o join(Tail(parts), c) : parts \in {parts_}})

\* ------------------------------------------------------------------------
\* Literals of the source
\* ------------------------------------------------------------------------

S_text_html == << "t", "e", "x", "t", "/", "h", "t", "m", "l" >>

S_text_css == << "t", "e", "x", "t", "/", "c", "s", "s" >>

S_index_html == << "i", "n", "d", "e", "x", ".", "h", "t", "m", "l" >>

S_http == << "h", "t", "t", "p", ":", "/", "/" >>

S_https == << "h", "t", "t", "p", "s", ":", "/", "/" >>

S_https_colon == << "h", "t", "t", "p", "s", ":" >>

\* ------------------------------------------------------------------------
\* urllib.parse, as the source uses it
\* ------------------------------------------------------------------------

SchemeChars == Letters \cup Digits \cup {"+", "-", "."}

\* urlsplit: the scheme of url (lowered) and what follows its colon
split_scheme(url_) ==
    Only({Only({IF k > 1 /\ url[1] \in Letters /\ \A j \in 1..(k - 1) : url[j] \in SchemeChars
                THEN [scheme |-> lower(Take(url, k - 1)), rest |-> Drop(url, k)]
                ELSE [scheme |-> << >>, rest |-> url]
                : k \in {find(url, {":"})}}) : url \in {url_}})

\* urlsplit: the netloc after a leading "//", up to the first of "/", "?", "#"
split_netloc(rest_) ==
    Only({IF ~startswith(rest, << "/", "/" >>) THEN [netloc |-> << >>, rest |-> rest]
          ELSE Only({IF d = 0 THEN [netloc |-> Drop(rest, 2), rest |-> << >>]
                     ELSE [netloc |-> SubSeq(rest, 3, d + 1), rest |-> Drop(rest, d + 1)]
                     : d \in {find(Drop(rest, 2), {"/", "?", "#"})}})
          : rest \in {rest_}})

\* urlsplit: what is before the first character c, and what is after it
split_off(s_, c) ==
    Only({Only({IF k = 0 THEN [head |-> s, tail |-> << >>]
                ELSE [head |-> Take(s, k - 1), tail |-> Drop(s, k)]
                : k \in {find(s, {c})}}) : s \in {s_}})

\* urlsplit(url): scheme, netloc, path, query and fragment of url
urlsplit(url) ==
    Only({Only({Only({Only({[scheme |-> a.scheme, netloc |-> b.netloc, path |-> q.head,
                             query |-> q.tail, fragment |-> f.tail]
                            : q \in {split_off(f.head, "?")}})
                      : f \in {split_off(b.rest, "#")}})
                : b \in {split_netloc(a.rest)}})
          : a \in {split_scheme(url)}})

\* The percent-escapes unquote decodes here: those of "/", ".", " " and "%".
\* The URLs of the model hold no other escape.
PercentDecoded(h_) ==
    Only({CASE h = << "2", "f" >> -> "/"
            [] h = << "2", "e" >> -> "."
            [] h = << "2", "0" >> -> " "
            [] h = << "2", "5" >> -> "%"
            [] OTHER -> "" : h \in {lower(h_)}})

\* unquote(s): every %XX replaced by its character
RECURSIVE unquote(_)
unquote(s_) ==
    Only({IF Len(s) = 0 THEN << >>
          ELSE IF s[1] = "%" /\ Len(s) >= 3 /\ PercentDecoded(SubSeq(s, 2, 3)) # ""
          THEN << PercentDecoded(SubSeq(s, 2, 3)) >> \o unquote(Drop(s, 3))
          ELSE << s[1] >> \o unquote(Tail(s)) : s \in {s_}})

\* re.sub(r"/{2,}", "/", path)
RECURSIVE collapse_slashes(_)
collapse_slashes(s_) ==
    Only({IF Len(s) = 0 THEN << >>
          ELSE IF s[1] = "/" THEN << "/" >> \o collapse_slashes(lstrip(s, {"/"}))
          ELSE << s[1] >> \o collapse_slashes(Tail(s)) : s \in {s_}})

\* ------------------------------------------------------------------------
\* The archive records of the model
\* ------------------------------------------------------------------------

\* args.domain, by default
Domain == << "d", "o", "d", "m", "a", "y", "a", "k", ".", "o", "r", "g" >>

Url(path) == S_http \o Domain \o path

U_a == Url(<< "/", "a" >>)

U_a_x == Url(<< "/", "a", "/", "x" >>)

U_acss_y == Url(<< "/", "a", ".", "c", "s", "s", "/", "y" >>)

U_acss == Url(<< "/", "a", ".", "c", "s", "s" >>)

U_ahash ==
    Url(<< "/", "a", "_", "_", "f", "c", "4", "a", "3", "a", "b", "d", ".", "c", "s", "s" >>)

U_docs == Url(<< "/", "d", "o", "c", "s" >>)

U_docs_file == Url(<< "/", "d", "o", "c", "s", "/", "f", "i", "l", "e" >>)

U_docs_slash == Url(<< "/", "d", "o", "c", "s", "/" >>)

U_a_query == Url(<< "/", "a", "?", "v", "=", "1" >>)

U_esc == Url(<< "/", "/", "a", "%", "2", "F", "x" >>)

\* hashlib.sha1(s.encode()).hexdigest(), tabulated on the URLs above
_sha1(s_) ==
    Only({
    CASE s = U_a ->
        <<"f","c","4","a","3","a","b","d","9","3","4","f","8","f","2","6","d","6","6","d","6","4","a","0","7","b","4","6","a","e","0","d","d","d","1","8","2","0","a","a">>
      [] s = U_a_x ->
        <<"f","9","4","9","c","4","d","2","b","7","d","f","2","c","b","f","5","9","b","8","c","b","e","f","a","1","f","e","8","8","3","d","e","8","f","c","e","f","4","e">>
      [] s = U_acss_y ->
        <<"3","b","9","e","a","d","e","8","d","c","f","a","a","3","6","9","e","d","8","4","1","3","a","b","c","9","6","a","1","0","6","c","f","0","c","0","7","6","e","f">>
      [] s = U_acss ->
        <<"c","9","0","a","b","d","e","3","5","6","0","e","4","5","3","b","5","e","d","5","a","6","3","d","a","5","3","2","0","6","7","1","3","8","0","6","6","d","6","2">>
      [] s = U_ahash ->
        <<"a","a","5","d","0","f","0","5","c","3","6","4","f","9","6","f","a","8","0","4","5","2","4","7","c","7","b","d","3","4","1","2","a","3","1","4","1","1","f","3">>
      [] s = U_docs ->
        <<"4","7","4","8","6","4","3","1","f","6","b","e","7","6","1","e","d","e","f","f","2","6","7","8","a","8","f","9","7","a","2","8","0","1","4","3","0","d","b","c">>
      [] s = U_docs_file ->
        <<"b","a","2","7","1","d","e","6","2","0","f","3","c","8","f","1","4","9","2","a","0","6","0","2","8","d","4","5","9","a","8","1","8","e","d","7","7","9","9","2">>
      [] s = U_docs_slash ->
        <<"0","6","f","b","f","a","4","0","c","6","2","3","4","0","8","d","5","b","f","2","2","0","8","c","6","b","1","b","7","7","3","e","f","6","a","9","a","d","5","7">>
      [] s = U_a_query ->
        <<"a","a","4","e","5","8","3","b","2","6","e","f","4","7","1","4","3","7","b","4","c","2","8","b","6","5","e","9","7","7","0","c","0","7","e","e","9","d","4","3">>
      [] s = U_esc ->
        <<"f","0","f","1","a","e","e","7","6","1","0","e","e","a","f","e","9","4","9","c","a","b","8","4","9","2","e","9","6","b","b","b","5","b","3","a","3","e","9","e">>
      : s \in {s_}})

\* ------------------------------------------------------------------------
\* The path mapper
\* ------------------------------------------------------------------------

_norm_mime(m) == lower(strip(split1_head(m, ";")))

\* re.search(r"\.[a-z0-9]{1,8}$", path, re.IGNORECASE)
has_ext(path_) ==
    \E path \in {path_} :
        \E k \in 1..8 :
            /\ Len(path) >= k + 1
            /\ path[Len(path) - k] = "."
            /\ \A j \in (Len(path) - k + 1)..Len(path) : path[j] \in Letters \cup Digits

\* lines 381-391: the extension of index.<ext> for a non-HTML URL that ends in "/"
index_ext(mime_) ==
    Only({IF startswith(mime, << "i", "m", "a", "g", "e", "/" >>)
          THEN << "." >> \o split1_tail(mime, "/")
          ELSE IF mime = S_text_css
          THEN << ".", "c", "s", "s" >>
          ELSE IF endswith(mime, << "j", "a", "v", "a", "s", "c", "r", "i", "p", "t" >>)
          THEN << ".", "j", "s" >>
          ELSE IF contains(mime, << "j", "s", "o", "n" >>)
          THEN << ".", "j", "s", "o", "n" >>
          ELSE IF endswith(mime, << "x", "m", "l" >>)
          THEN << ".", "x", "m", "l" >>
          ELSE << ".", "b", "i", "n" >> : mime \in {mime_}})

\* lines 363-368: the path of the URL, unquoted, rooted, its slashes collapsed
url_path(original_url) ==
    Only({collapse_slashes(IF startswith(p, << "/" >>) THEN p ELSE << "/" >> \o p)
          : p \in {Only({unquote(IF u.path = << >> THEN << "/" >> ELSE u.path)
                         : u \in {urlsplit(original_url)}})}})

\* A variant of the mapper without the index.html rule for HTML pages: every URL
\* without a trailing slash is stored under its own path
_local_path_for_original_no_index(original_url, mimetype_) ==
    Only({IF endswith(path, << "/" >>)
          THEN lstrip(path, {"/"}) \o << "i", "n", "d", "e", "x" >> \o index_ext(mime)
          ELSE lstrip(path, {"/"})
          : path \in {url_path(original_url)}, mime \in {_norm_mime(mimetype_)}})

\* lines 361-394: the path under docs/ of a URL with a content type
_local_path_for_original(original_url, mimetype_) ==
    Only({IF mime = S_text_html /\ (endswith(path, << "/" >>) \/ ~has_ext(path))
          THEN lstrip(IF endswith(path, << "/" >>) THEN path ELSE path \o << "/" >>, {"/"})
                   \o S_index_html
          ELSE IF endswith(path, << "/" >>)
          THEN lstrip(path, {"/"}) \o << "i", "n", "d", "e", "x" >> \o index_ext(mime)
          ELSE lstrip(path, {"/"})
          : path \in {url_path(original_url)}, mime \in {_norm_mime(mimetype_)}})

\* line 404: the three types the source names besides end in "javascript"
_ext_for_mime(mimetype_) ==
    Only({IF m = << >>
          THEN << ".", "b", "i", "n" >>
          ELSE IF m = << "t", "e", "x", "t", "/", "p", "l", "a", "i", "n" >>
          THEN << ".", "t", "x", "t" >>
          ELSE IF m = S_text_css
          THEN << ".", "c", "s", "s" >>
          ELSE IF endswith(m, << "j", "a", "v", "a", "s", "c", "r", "i", "p", "t" >>)
          THEN << ".", "j", "s" >>
          ELSE IF contains(m, << "j", "s", "o", "n" >>)
          THEN << ".", "j", "s", "o", "n" >>
          ELSE IF endswith(m, << "x", "m", "l" >>) \/ contains(m, << "x", "m", "l" >>)
          THEN << ".", "x", "m", "l" >>
          ELSE IF startswith(m, << "i", "m", "a", "g", "e", "/" >>)
          THEN << "." >> \o split1_tail(m, "/")
          ELSE IF startswith(m, << "f", "o", "n", "t", "/" >>)
          THEN << "." >> \o split1_tail(m, "/")
          ELSE << ".", "b", "i", "n" >> : m \in {_norm_mime(mimetype_)}})

\* ------------------------------------------------------------------------
\* main: the Selection Set
\* ------------------------------------------------------------------------

S_image_png == << "i", "m", "a", "g", "e", "/", "p", "n", "g" >>

S_html_charset ==
    << "T", "e", "x", "t", "/", "H", "T", "M", "L", ";", " ", "c", "h", "a", "r", "s", "e",
       "t", "=", "U", "T", "F", "-", "8" >>

\* A CdxRecord: its original URL and its mimetype. The timestamp and the
\* status code only pass through to the logs.
CdxRecord(original, mimetype) == [original |-> original, mimetype |-> mimetype]

R_a == CdxRecord(U_a, S_text_css)

R_a_x == CdxRecord(U_a_x, S_image_png)

R_docs == CdxRecord(U_docs, S_text_html)

R_docs_file == CdxRecord(U_docs_file, S_image_png)

R_docs_file_html == CdxRecord(U_docs_file, S_text_html)

R_docs_file_css == CdxRecord(U_docs_file, S_text_css)

\* The records the index query may return
Universe ==
    {R_a, R_a_x, R_docs, R_docs_file, R_docs_file_html, R_docs_file_css,
     CdxRecord(U_acss_y, S_image_png),
     CdxRecord(U_acss, S_text_css),
     CdxRecord(U_ahash, S_text_css),
     CdxRecord(U_docs_slash, S_html_charset),
     CdxRecord(U_a_query, S_text_css),
     CdxRecord(U_esc, S_image_png)}

\* The longest list of records of the selection runs
MaxRecords == 4

\* The index query collapses its answer by URL key: one record per URL
RecordLists(universe, n) ==
    {s \in UNION {[1..k -> universe] : k \in 0..n} :
        \A a, b \in DOMAIN s : a # b => s[a].original # s[b].original}

VARIABLES
    records,          \* the records main keeps of the index query (line 447), in order
    no_rewrite,       \* args.no_rewrite
    keep_age_gate,    \* args.keep_age_gate
    pc,               \* where main is
    chosen,           \* the Selection Set: (record, local path) pairs
    seen_paths,
    dir_prefixes,
    i,                \* the download loop's position in chosen, from 1
    attempt,
    backoff,          \* the last time.sleep of the retry loop, in seconds
    exc,              \* the exception raised last for the record at hand
    total,
    ok,
    skipped,
    failed,
    rewritten_html,
    rewritten_css,
    index_f,          \* meta/index.jsonl, a list of entries
    err_f,            \* meta/errors.jsonl, a list of entries
    files,            \* the regular files under docs/, by relative path
    dirs,             \* the directories under docs/, by relative path
    exit_status,      \* what main returns: -1 while it runs
    input,            \* the rewriter's input
    page,             \* the local path of the page being rewritten
    mimetype,         \* the content type of the URL being mapped
    out1,             \* the rewriter's output
    out2,             \* the rewriter's output on out1
    rpc               \* where the rewriting run is

vars ==
    << records, no_rewrite, keep_age_gate, pc, chosen, seen_paths, dir_prefixes, i, attempt,
       backoff, exc, total, ok, skipped, failed, rewritten_html, rewritten_css, index_f, err_f,
       files, dirs, exit_status, input, page, mimetype, out1, out2, rpc >>

rewrite_vars == << input, page, mimetype, out1, out2, rpc >>

loop_vars ==
    << i, attempt, backoff, exc, total, ok, skipped, failed, rewritten_html, rewritten_css,
       index_f, err_f, files, dirs, exit_status >>

NoExc == << >>

\* lines 454-459: the first record of each local path is chosen
RECURSIVE dedupe(_, _, _)
dedupe(recs_, seen_, acc_) ==
    Only({IF recs = << >> THEN [chosen |-> acc, seen_paths |-> seen]
          ELSE Only({IF lp \in seen THEN dedupe(Tail(recs), seen, acc)
                     ELSE dedupe(Tail(recs), seen \cup {lp},
                                 Append(acc, [rec |-> Head(recs), lp |-> lp]))
                     : lp \in {_local_path_for_original(Head(recs).original,
                                                        Head(recs).mimetype)}})
          : recs \in {recs_}, seen \in {seen_}, acc \in {acc_}})

\* lines 465-467: "/".join(parts[:j]) for j in range(1, len(parts))
prefixes_of(lp) ==
    Only({{join(SubSeq(parts, 1, j), "/") : j \in 1..(Len(parts) - 1)}
          : parts \in {split(lp, "/")}})

\* lines 463-467
all_dir_prefixes(ch_) == Only({UNION {prefixes_of(ch[k].lp) : k \in DOMAIN ch} : ch \in {ch_}})

\* lines 473-476: the new name of a path that is also a directory
new_local_path(rec_, lp_, taken_) ==
    Only({IF lp \o ext \in taken
          THEN lp \o << "_", "_" >> \o Take(_sha1(rec.original), 8) \o ext
          ELSE lp \o ext
          : rec \in {rec_}, lp \in {lp_}, taken \in {taken_},
            ext \in {_ext_for_mime(rec_.mimetype)}})

\* lines 471-480: the pass over chosen, with taken as it goes
RECURSIVE fix(_, _, _, _)
fix(ch_, prefixes_, taken_, fixed_) ==
    Only({IF ch = << >> THEN fixed
          ELSE IF Head(ch).lp \in prefixes
          THEN Only({fix(Tail(ch), prefixes, (taken \ {Head(ch).lp}) \cup {new_lp},
                         Append(fixed, [rec |-> Head(ch).rec, lp |-> new_lp]))
                     : new_lp \in {new_local_path(Head(ch).rec, Head(ch).lp, taken)}})
          ELSE fix(Tail(ch), prefixes, taken, Append(fixed, Head(ch)))
          : ch \in {ch_}, prefixes \in {prefixes_}, taken \in {taken_}, fixed \in {fixed_}})

\* lines 468-481
resolve_conflicts(ch_, prefixes_) ==
    Only({IF prefixes # {} THEN fix(ch, prefixes, {ch[k].lp : k \in DOMAIN ch}, << >>) ELSE ch
          : ch \in {ch_}, prefixes \in {prefixes_}})

InitLoop ==
    /\ i = 0
    /\ attempt = 0
    /\ backoff = 0
    /\ exc = NoExc
    /\ total = 0
    /\ ok = 0
    /\ skipped = 0
    /\ failed = 0
    /\ rewritten_html = 0
    /\ rewritten_css = 0
    /\ index_f = << >>
    /\ err_f = << >>
    /\ exit_status = -1

InitRewriteIdle ==
    /\ input = << >>
    /\ page = << >>
    /\ mimetype = << >>
    /\ out1 = << >>
    /\ out2 = << >>
    /\ rpc = "idle"

\* main, lines 451-459
Dedupe ==
    /\ pc = "dedupe"
    /\ \E d \in {dedupe(records, {}, << >>)} :
        /\ chosen' = d.chosen
        /\ seen_paths' = d.seen_paths
    /\ pc' = "prefixes"
    /\ UNCHANGED << records, no_rewrite, keep_age_gate, dir_prefixes, files, dirs >>
    /\ UNCHANGED << i, attempt, backoff, exc, total, ok, skipped, failed, rewritten_html,
                    rewritten_css, index_f, err_f, exit_status >>
    /\ UNCHANGED rewrite_vars

\* main, lines 463-467
DirPrefixes ==
    /\ pc = "prefixes"
    /\ dir_prefixes' = all_dir_prefixes(chosen)
    /\ pc' = "fix"
    /\ UNCHANGED << records, no_rewrite, keep_age_gate, chosen, seen_paths, files, dirs >>
    /\ UNCHANGED << i, attempt, backoff, exc, total, ok, skipped, failed, rewritten_html,
                    rewritten_css, index_f, err_f, exit_status >>
    /\ UNCHANGED rewrite_vars

\* main, lines 468-494: the conflict pass, then the counters of the loop
Fix ==
    /\ pc = "fix"
    /\ chosen' = resolve_conflicts(chosen, dir_prefixes)
    /\ total' = Len(chosen')
    /\ i' = 1
    /\ pc' = "loop"
    /\ UNCHANGED << records, no_rewrite, keep_age_gate, seen_paths, dir_prefixes, files, dirs >>
    /\ UNCHANGED << attempt, backoff, exc, ok, skipped, failed, rewritten_html,
                    rewritten_css, index_f, err_f, exit_status >>
    /\ UNCHANGED rewrite_vars

\* The selection of main, lines 451-481, on every list of records.  The lists
\* are those left by args.max and by the age-gate filter of lines 443-447, which
\* only take records away.
InitSelect ==
    /\ records \in RecordLists(Universe, MaxRecords)
    /\ no_rewrite = FALSE
    /\ keep_age_gate = FALSE
    /\ pc = "dedupe"
    /\ chosen = << >>
    /\ seen_paths = {}
    /\ dir_prefixes = {}
    /\ files = {}
    /\ dirs = {}
    /\ InitLoop
    /\ InitRewriteIdle

NextSelect == Dedupe \/ DirPrefixes \/ Fix

SpecSelect == InitSelect /\ [][NextSelect]_vars

\* ------------------------------------------------------------------------
\* main: the download loop
\* ------------------------------------------------------------------------

S_nojekyll == << ".", "n", "o", "j", "e", "k", "y", "l", "l" >>

\* line 533: the attempts of one fetch
MaxAttempts == 4

\* line 533: the HTTP statuses that are tried again
RetryableCodes == {429, 500, 502, 503, 504}

\* The statuses an HTTPError of the archive carries here
HTTPCodes == RetryableCodes \cup {404, 501}

Exc(type, code) == [type |-> type, code |-> code]

\* The Content-Type headers of the archive's answers: none, or one of these
ResponseTypes == {<< >>, S_text_html, S_html_charset, S_text_css, S_image_png}

\* The records of the download runs, and the longest list of them
RunUniverse == {R_a, R_a_x, R_docs}

MaxRun == 2

\* What docs/ holds when main starts: nothing, or what an earlier run left
PreExisting ==
    {[files |-> {}, dirs |-> {}],
     [files |-> {<< "a" >>}, dirs |-> {}],
     [files |-> {<< "a", "/", "x" >>}, dirs |-> {<< "a" >>}],
     [files |-> {<< "a", "/", "x" >>,
                 << "d", "o", "c", "s", "/", "i", "n", "d", "e", "x", ".", "h", "t", "m", "l" >>},
      dirs |-> {<< "a" >>, << "d", "o", "c", "s" >>}]}

\* line 504: os.path.exists(local_abs)
exists(lp) == lp \in files \cup dirs

\* A variant of the file test that takes any existing path for a file
isfile_any_path(lp) == lp \in files \cup dirs

\* line 505: os.path.isfile(local_abs)
isfile(lp) == lp \in files

\* The record and the local path of the loop's position
rec_at == chosen[i].rec

local_rel == chosen[i].lp

\* A variant of the handler that records the failure and leaves the loop at the
\* same record
RecordFailure_same_record(e) ==
    /\ failed' = failed + 1
    /\ err_f' = Append(err_f, [original |-> rec_at.original, local_path |-> local_rel,
                               error |-> e.type])
    /\ exc' = e
    /\ i' = i
    /\ pc' = "loop"

\* lines 600-618: the handler of any exception of the loop's body
RecordFailure(e) ==
    /\ failed' = failed + 1
    /\ err_f' = Append(err_f, [original |-> rec_at.original, local_path |-> local_rel,
                               error |-> e.type])
    /\ exc' = e
    /\ i' = i + 1
    /\ pc' = "loop"

\* main, line 442: the index query; its failure ends the run
FetchCdx ==
    /\ pc = "start"
    /\ \/ pc' = "dedupe" /\ UNCHANGED exit_status
       \/ pc' = "aborted" /\ exit_status' = 1
    /\ UNCHANGED << records, no_rewrite, keep_age_gate, chosen, seen_paths, dir_prefixes,
                    files, dirs >>
    /\ UNCHANGED << i, attempt, backoff, exc, total, ok, skipped, failed, rewritten_html,
                    rewritten_css, index_f, err_f >>
    /\ UNCHANGED rewrite_vars

\* main, lines 504-522: the destination is a file already
Skip ==
    /\ pc = "loop"
    /\ i <= total
    /\ exists(local_rel)
    /\ isfile(local_rel)
    /\ skipped' = skipped + 1
    /\ index_f' = Append(index_f, [original |-> rec_at.original, local_path |-> local_rel,
                                   skipped |-> TRUE, rewritten |-> FALSE])
    /\ exc' = NoExc
    /\ i' = i + 1
    /\ UNCHANGED << records, no_rewrite, keep_age_gate, pc, chosen, seen_paths, dir_prefixes,
                    files, dirs >>
    /\ UNCHANGED << attempt, backoff, total, ok, failed, rewritten_html, rewritten_css,
                    err_f, exit_status >>
    /\ UNCHANGED rewrite_vars

\* main, lines 504-524 and 600-618: the destination exists and is no file
Conflict ==
    /\ pc = "loop"
    /\ i <= total
    /\ exists(local_rel)
    /\ ~isfile(local_rel)
    /\ RecordFailure(Exc("IsADirectoryError", 0))
    /\ UNCHANGED << records, no_rewrite, keep_age_gate, chosen, seen_paths, dir_prefixes,
                    files, dirs >>
    /\ UNCHANGED << attempt, backoff, total, ok, skipped, rewritten_html, rewritten_css,
                    index_f, exit_status >>
    /\ UNCHANGED rewrite_vars

\* main, lines 504 and 526: nothing is there, the fetch begins
BeginFetch ==
    /\ pc = "loop"
    /\ i <= total
    /\ ~exists(local_rel)
    /\ attempt' = 0
    /\ backoff' = 0
    /\ exc' = NoExc
    /\ pc' = "fetch"
    /\ UNCHANGED << records, no_rewrite, keep_age_gate, chosen, seen_paths, dir_prefixes,
                    files, dirs >>
    /\ UNCHANGED << i, total, ok, skipped, failed, rewritten_html, rewritten_css, index_f,
                    err_f, exit_status >>
    /\ UNCHANGED rewrite_vars

\* A variant of the retry test that tries any HTTP status again
retries_any_status(e, n) ==
    \/ e.type = "HTTPError" /\ n < MaxAttempts
    \/ e.type = "URLError" /\ n < MaxAttempts

\* lines 532-541: whether the exception e of attempt n is tried again
retries(e, n) ==
    \/ e.type = "HTTPError" /\ n < MaxAttempts /\ e.code \in RetryableCodes
    \/ e.type = "URLError" /\ n < MaxAttempts

\* lines 534 and 539: time.sleep(1.0 * attempt)
sleep_seconds(n) == 1 * n

\* lines 527-541 and 600-618: an attempt that raises e
FetchRaises(e) ==
    /\ attempt' = attempt + 1
    /\ IF retries(e, attempt + 1)
       THEN /\ backoff' = sleep_seconds(attempt + 1)
            /\ exc' = e
            /\ UNCHANGED << pc, i, failed, err_f >>
       ELSE /\ RecordFailure(e)
            /\ UNCHANGED backoff
    /\ UNCHANGED << records, no_rewrite, keep_age_gate, chosen, seen_paths, dir_prefixes,
                    files, dirs >>
    /\ UNCHANGED << total, ok, skipped, rewritten_html, rewritten_css, index_f,
                    exit_status >>
    /\ UNCHANGED rewrite_vars

\* main, lines 527-531: the attempt succeeds
FetchOk ==
    /\ pc = "fetch"
    /\ attempt' = attempt + 1
    /\ exc' = NoExc
    /\ pc' = "store"
    /\ UNCHANGED << records, no_rewrite, keep_age_gate, chosen, seen_paths, dir_prefixes,
                    files, dirs >>
    /\ UNCHANGED << i, backoff, total, ok, skipped, failed, rewritten_html, rewritten_css,
                    index_f, err_f, exit_status >>
    /\ UNCHANGED rewrite_vars

\* main, lines 532-536: the archive answers with an HTTP error
FetchHTTPError ==
    /\ pc = "fetch"
    /\ \E code \in HTTPCodes : FetchRaises(Exc("HTTPError", code))

\* main, lines 537-541: the archive cannot be reached
FetchURLError ==
    /\ pc = "fetch"
    /\ FetchRaises(Exc("URLError", 0))

\* main, lines 530 and 600: the read of the answer raises another exception
FetchOtherError ==
    /\ pc = "fetch"
    /\ FetchRaises(Exc("TimeoutError", 0))

\* _write_bytes and _write_text: the exception of writing lp, "" when it is written.
\* makedirs raises on a parent that is a file, open on a path that is a
\* directory or on a disk that refuses.
write_error(lp_, disk_ok) ==
    Only({IF parents # {} /\ Take(lp, rfind(lp, {"/"}) - 1) \in files THEN "FileExistsError"
          ELSE IF parents \cap files # {} THEN "NotADirectoryError"
          ELSE IF lp \in dirs THEN "IsADirectoryError"
          ELSE IF ~disk_ok THEN "OSError"
          ELSE "" : lp \in {lp_}, parents \in {prefixes_of(lp_)}})

\* line 545: the header's content type, or else the record's
response_mime(content_type) ==
    Only({IF m # << >> THEN m ELSE _norm_mime(rec_at.mimetype)
          : m \in {_norm_mime(content_type)}})

\* lines 548-559: whether an HTML answer is rewritten, and counted before it is written
html_rewritten(mime) == mime = S_text_html /\ ~no_rewrite

\* lines 562-568: whether a CSS answer is rewritten, and counted once it is written
css_rewritten(mime) == mime # S_text_html /\ ~no_rewrite /\ mime = S_text_css

\* main, lines 543-598 and 600-618: the answer is decompressed, rewritten and written
Store ==
    /\ pc = "store"
    /\ \E gzip_ok \in BOOLEAN, content_type \in ResponseTypes, disk_ok \in BOOLEAN :
        \E mime \in {response_mime(content_type)}, werr \in {write_error(local_rel, disk_ok)} :
            IF ~gzip_ok
            THEN /\ RecordFailure(Exc("BadGzipFile", 0))
                 /\ UNCHANGED << ok, rewritten_html, rewritten_css, index_f, files, dirs >>
            ELSE /\ rewritten_html' = IF html_rewritten(mime) THEN rewritten_html + 1
                                      ELSE rewritten_html
                 /\ dirs' = IF werr \in {"FileExistsError", "NotADirectoryError"} THEN dirs
                            ELSE dirs \cup prefixes_of(local_rel)
                 /\ IF werr # ""
                    THEN /\ RecordFailure(Exc(werr, 0))
                         /\ UNCHANGED << ok, rewritten_css, index_f, files >>
                    ELSE /\ files' = files \cup {local_rel}
                         /\ rewritten_css' = IF css_rewritten(mime) THEN rewritten_css + 1
                                             ELSE rewritten_css
                         /\ ok' = ok + 1
                         /\ index_f' = Append(index_f,
                                [original |-> rec_at.original, local_path |-> local_rel,
                                 skipped |-> FALSE,
                                 rewritten |-> html_rewritten(mime) \/ css_rewritten(mime)])
                         /\ exc' = NoExc
                         /\ i' = i + 1
                         /\ pc' = "loop"
                         /\ UNCHANGED << failed, err_f >>
    /\ UNCHANGED << records, no_rewrite, keep_age_gate, chosen, seen_paths, dir_prefixes >>
    /\ UNCHANGED << attempt, backoff, total, skipped, exit_status >>
    /\ UNCHANGED rewrite_vars

\* A variant of the return value that tells nothing of the failures
exit_code_always_zero(n_failed) == 0

\* lines 638: main's return value
exit_code(n_failed) == IF n_failed = 0 THEN 0 ELSE 2

\* main, lines 620-638: the loop is over, the run's status is returned
Finish ==
    /\ pc = "loop"
    /\ i > total
    /\ exit_status' = exit_code(failed)
    /\ pc' = "done"
    /\ UNCHANGED << records, no_rewrite, keep_age_gate, chosen, seen_paths, dir_prefixes,
                    files, dirs >>
    /\ UNCHANGED << i, attempt, backoff, exc, total, ok, skipped, failed, rewritten_html,
                    rewritten_css, index_f, err_f >>
    /\ UNCHANGED rewrite_vars

\* main on the records of the download runs, with docs/ as an earlier run left it
Init ==
    /\ records \in RecordLists(RunUniverse, MaxRun)
    /\ no_rewrite \in BOOLEAN
    /\ keep_age_gate \in BOOLEAN
    /\ pc = "start"
    /\ chosen = << >>
    /\ seen_paths = {}
    /\ dir_prefixes = {}
    /\ \E pre \in PreExisting :
        /\ files = pre.files \cup {S_nojekyll}
        /\ dirs = pre.dirs
    /\ InitLoop
    /\ InitRewriteIdle

Next ==
    \/ FetchCdx
    \/ Dedupe
    \/ DirPrefixes
    \/ Fix
    \/ Skip
    \/ Conflict
    \/ BeginFetch
    \/ FetchOk
    \/ FetchHTTPError
    \/ FetchURLError
    \/ FetchOtherError
    \/ Store
    \/ Finish

Spec == Init /\ [][Next]_vars

\* ------------------------------------------------------------------------
\* os.path (posixpath), as the source uses it
\* ------------------------------------------------------------------------

S_dotdot == << ".", "." >>

\* main, lines 433-434, for --out /out
docs_root == << "/", "o", "u", "t", "/", "d", "o", "c", "s" >>

\* os.path.join(a, b)
path_join(a_, b_) ==
    Only({IF startswith(b, << "/" >>) THEN b
          ELSE IF a = << >> \/ endswith(a, << "/" >>) THEN a \o b
          ELSE a \o << "/" >> \o b : a \in {a_}, b \in {b_}})

\* os.path.dirname(p)
dirname(p_) ==
    Only({Only({IF head # << >> /\ \E k \in 1..Len(head) : head[k] # "/"
                THEN rstrip(head, {"/"}) ELSE head
                : head \in {Take(p, rfind(p, {"/"}))}}) : p \in {p_}})

\* The segments of a path that os.path.normpath keeps, ".." resolved
RECURSIVE resolve_dots(_, _)
resolve_dots(segs_, acc_) ==
    Only({IF Len(segs) = 0 THEN acc
          ELSE IF segs[1] = << >> \/ segs[1] = << "." >> THEN resolve_dots(Tail(segs), acc)
          ELSE IF segs[1] # S_dotdot THEN resolve_dots(Tail(segs), Append(acc, segs[1]))
          ELSE IF Len(acc) > 0 /\ acc[Len(acc)] # S_dotdot
          THEN resolve_dots(Tail(segs), SubSeq(acc, 1, Len(acc) - 1))
          ELSE resolve_dots(Tail(segs), Append(acc, S_dotdot))
          : segs \in {segs_}, acc \in {acc_}})

\* The length of the common initial run of two lists of segments
common_len(a_, b_) ==
    Only({Cardinality({k \in 1..Len(a) : k <= Len(b) /\ \A j \in 1..k : a[j] = b[j]})
          : a \in {a_}, b \in {b_}})

\* os.path.relpath(path, start), for absolute path and start
relpath(path_, start_) ==
    Only({Only({Only({IF Len(rel) = 0 THEN << "." >> ELSE join(rel, "/")
                      : rel \in {[k \in 1..(Len(s) - n) |-> S_dotdot]
                                     \o SubSeq(p, n + 1, Len(p))}})
                : n \in {common_len(p, s)}})
          : p \in {resolve_dots(split(path_, "/"), << >>)},
            s \in {resolve_dots(split(start_, "/"), << >>)}})

_posix_relpath(from_dir, to_dir) ==
    Only({IF rel = << "." >> THEN << >> ELSE rstrip(rel, {"/"}) \o << "/" >>
          : rel \in {relpath(to_dir, from_dir)}})

\* ------------------------------------------------------------------------
\* The rewriter of one URL value
\* ------------------------------------------------------------------------

\* None, and a regular expression that does not match
None == << >>

S_web_archive_org ==
    << "w", "e", "b", ".", "a", "r", "c", "h", "i", "v", "e", ".", "o", "r", "g" >>

S_www_dot == << "w", "w", "w", "." >>

\* line 37: mailto: tel: sms: javascript: data: blob: about:
skip_schemes ==
    {<< "m", "a", "i", "l", "t", "o", ":" >>,
     << "t", "e", "l", ":" >>,
     << "s", "m", "s", ":" >>,
     << "j", "a", "v", "a", "s", "c", "r", "i", "p", "t", ":" >>,
     << "d", "a", "t", "a", ":" >>,
     << "b", "l", "o", "b", ":" >>,
     << "a", "b", "o", "u", "t", ":" >>}

\* RE_SKIP_SCHEMES.match(v)
RE_SKIP_SCHEMES(v_) ==
    \E v \in {lower(v_)} : \E p \in skip_schemes : startswith(v, p)

\* lines 271-276: wp-content/ wp-includes/ wp-json/ cdn-cgi/
maybe_roots ==
    {<< "w", "p", "-", "c", "o", "n", "t", "e", "n", "t", "/" >>,
     << "w", "p", "-", "i", "n", "c", "l", "u", "d", "e", "s", "/" >>,
     << "w", "p", "-", "j", "s", "o", "n", "/" >>,
     << "c", "d", "n", "-", "c", "g", "i", "/" >>}

\* main, line 449
domain_set == {lower(Domain), lower(S_www_dot \o Domain)}

\* The number of characters of s, from position k on, before the first one
\* that is outside cs
run_in(s_, k_, cs_) ==
    Only({IF \E j \in k..Len(s) : s[j] \notin cs
          THEN (CHOOSE j \in k..Len(s) : s[j] \notin cs /\ \A m \in k..(j - 1) : s[m] \in cs) - k
          ELSE Len(s) + 1 - k : s \in {s_}, k \in {k_}, cs \in {cs_}})

\* The number of characters of s, from position k on, before the first one
\* that is in cs
run_out(s_, k_, cs_) ==
    Only({IF \E j \in k..Len(s) : s[j] \in cs
          THEN (CHOOSE j \in k..Len(s) : s[j] \in cs /\ \A m \in k..(j - 1) : s[m] \notin cs) - k
          ELSE Len(s) + 1 - k : s \in {s_}, k \in {k_}, cs \in {cs_}})

\* s[k - 1], or "" past the ends of s
char_at(s_, k_) == Only({IF k \in 1..Len(s) THEN s[k] ELSE "" : s \in {s_}, k \in {k_}})

\* Whether the lower-case literal lit is at position k of s, whatever the case
literal_at(s_, k_, lit_) ==
    \E s \in {s_}, k \in {k_}, lit \in {lit_} :
        /\ k >= 1
        /\ k + Len(lit) - 1 <= Len(s)
        /\ lower(SubSeq(s, k, k + Len(lit) - 1)) = lit

\* line 225: re.match(r"^/web/\d+(?:[a-z_]+)?/(https?://.+)$", path, re.IGNORECASE),
\* its group 1
wayback_match(path_) ==
    Only({IF ~literal_at(path, 1, << "/", "w", "e", "b", "/" >>) THEN None
          ELSE Only({IF d = 0 THEN None
                     ELSE Only({IF char_at(path, 6 + d + f) # "/" THEN None
                                ELSE Only({IF /\ "\n" \notin {tail[k] : k \in 1..Len(tail)}
                                              /\ \/ literal_at(tail, 1, S_http) /\ Len(tail) > 7
                                                 \/ literal_at(tail, 1, S_https) /\ Len(tail) > 8
                                           THEN tail ELSE None
                                           : tail \in {Drop(path, 6 + d + f)}})
                                : f \in {run_in(path, 6 + d, Letters \cup {"_"})}})
                     : d \in {run_in(path, 6, Digits)}})
          : path \in {path_}})

_extract_original_from_wayback(url) ==
    Only({IF lower(u.netloc) \notin {S_web_archive_org, S_www_dot \o S_web_archive_org}
          THEN None
          ELSE wayback_match(u.path) : u \in {urlsplit(url)}})

\* lines 239-245: the wrapper taken off, a protocol-relative URL made absolute
unwrap(v_) ==
    Only({Only({IF startswith(w, << "/", "/" >>) THEN S_https_colon \o w ELSE w
                : w \in {IF embedded # None THEN embedded ELSE v}})
          : v \in {v_}, embedded \in {_extract_original_from_wayback(v_)}})

\* A variant of the branch for absolute URLs that returns the stripped,
\* unwrapped URL for a host outside domain_set
rewrite_absolute_returns_v(value, v, domains, rel_prefix) ==
    Only({IF lower(u.netloc) \in domains
          THEN rel_prefix
                   \o (IF startswith(path, << "/" >>) THEN Tail(path) ELSE path)
                   \o (IF u.query # << >> THEN << "?" >> \o u.query ELSE << >>)
                   \o (IF u.fragment # << >> THEN << "#" >> \o u.fragment ELSE << >>)
          ELSE v
          : u \in {urlsplit(v)},
            path \in {IF urlsplit(v).path = << >> THEN << "/" >> ELSE urlsplit(v).path}})

\* lines 248-264: an absolute URL
rewrite_absolute(value, v, domains, rel_prefix) ==
    Only({IF lower(u.netloc) \in domains
          THEN rel_prefix
                   \o (IF startswith(path, << "/" >>) THEN Tail(path) ELSE path)
                   \o (IF u.query # << >> THEN << "?" >> \o u.query ELSE << >>)
                   \o (IF u.fragment # << >> THEN << "#" >> \o u.fragment ELSE << >>)
          ELSE value
          : u \in {urlsplit(v)},
            path \in {IF urlsplit(v).path = << >> THEN << "/" >> ELSE urlsplit(v).path}})

\* lines 267-280: a root-relative URL, a path of WordPress, anything else
rewrite_relative(value, v_, rel_prefix) ==
    Only({IF startswith(v, << "/" >>) THEN rel_prefix \o lstrip(v, {"/"})
          ELSE IF \E maybe_root \in maybe_roots : startswith(v, maybe_root)
          THEN rel_prefix \o v
          ELSE value : v \in {v_}})

_rewrite_one_url_value(value_, domains_, rel_prefix_) ==
    Only({IF v = << >> \/ startswith(v, << "#" >>) THEN value
          ELSE IF RE_SKIP_SCHEMES(v) THEN value
          ELSE Only({IF startswith(w, S_http) \/ startswith(w, S_https)
                     THEN rewrite_absolute(value, w, domains, rel_prefix)
                     ELSE rewrite_relative(value, w, rel_prefix)
                     : w \in {unwrap(v)}})
          : value \in {value_}, v \in {strip(value_)}, domains \in {domains_},
            rel_prefix \in {rel_prefix_}})

\* ------------------------------------------------------------------------
\* The regular expressions of the rewriting passes
\* ------------------------------------------------------------------------

\* \w, on the characters of the model
WordChars == Letters \cup Digits \cup {"_"}

Quotes == {"\"", "'"}

\* The characters that end the URL of url(...): [^"')]
UrlStop == {"\"", "'", ")"}

S_srcset == << "s", "r", "c", "s", "e", "t" >>

S_url_paren == << "u", "r", "l", "(" >>

S_at_import == << "@", "i", "m", "p", "o", "r", "t" >>

\* lines 308-317: href src poster action data-src data-href data-url content
attrs ==
    {<< "h", "r", "e", "f" >>,
     << "s", "r", "c" >>,
     << "p", "o", "s", "t", "e", "r" >>,
     << "a", "c", "t", "i", "o", "n" >>,
     << "d", "a", "t", "a", "-", "s", "r", "c" >>,
     << "d", "a", "t", "a", "-", "h", "r", "e", "f" >>,
     << "d", "a", "t", "a", "-", "u", "r", "l" >>,
     << "c", "o", "n", "t", "e", "n", "t" >>}

\* A match that is not one: a match ends at a position of the text, from 1
NoMatch == [end |-> 0]

\* (["'])(.*?)(\1) at position b of s, re.DOTALL
quoted_at(s_, b_) ==
    Only({IF char_at(s, b) \notin Quotes THEN NoMatch
          ELSE Only({IF c > Len(s) THEN NoMatch
                     ELSE [end |-> c, q |-> << s[b] >>, val |-> SubSeq(s, b + 1, c - 1)]
                     : c \in {b + 1 + run_out(s, b + 1, {s[b]})}})
          : s \in {s_}, b \in {b_}})

\* \s*=\s*(["'])(.*?)(\2) at position e of s, after a name that began at k
attr_value_at(s_, k_, e_) ==
    Only({Only({IF char_at(s, a) # "=" THEN NoMatch
                ELSE Only({IF m.end = 0 THEN NoMatch
                           ELSE [end |-> m.end, q |-> m.q, val |-> m.val,
                                 name |-> SubSeq(s, k, e - 1)]
                           : m \in {quoted_at(s, a + 1 + run_in(s, a + 1, Whitespace))}})
                : a \in {e + run_in(s, e, Whitespace)}})
          : s \in {s_}, k \in {k_}, e \in {e_}})

\* lines 305 and 318: (?i)\b(name|...)\s*=\s*(["'])(.*?)(\2) at position k of s
attr_match(s_, k_, names_) ==
    Only({IF k > 1 /\ s[k - 1] \in WordChars THEN NoMatch
          ELSE IF \A n \in names : ~literal_at(s, k, n) THEN NoMatch
          ELSE attr_value_at(s, k, k + Len(CHOOSE n \in names : literal_at(s, k, n)))
          : s \in {s_}, k \in {k_}, names \in {names_}})

\* line 338: (?i)url\(\s*(?P<q>["']?)(?P<u>[^"')]+)(?P=q)\s*\) at position k of s,
\* when a quote follows the white space at position a
url_match_quoted(s_, a_) ==
    Only({Only({IF r = 0 \/ char_at(s, a + 1 + r) # s[a] THEN NoMatch
                ELSE Only({IF char_at(s, e) # ")" THEN NoMatch
                           ELSE [end |-> e, q |-> << s[a] >>, u |-> SubSeq(s, a + 1, a + r)]
                           : e \in {a + 2 + r + run_in(s, a + 2 + r, Whitespace)}})
                : r \in {run_out(s, a + 1, UrlStop)}})
          : s \in {s_}, a \in {a_}})

\* line 338, when no quote follows the w characters of white space before a:
\* an empty URL makes \s* give its last character to the group u
url_match_bare(s_, a_, w_) ==
    Only({Only({IF char_at(s, a + r) # ")" THEN NoMatch
                ELSE IF r > 0 THEN [end |-> a + r, q |-> << >>, u |-> SubSeq(s, a, a + r - 1)]
                ELSE IF w > 0 THEN [end |-> a, q |-> << >>, u |-> << s[a - 1] >>]
                ELSE NoMatch
                : r \in {run_out(s, a, UrlStop)}})
          : s \in {s_}, a \in {a_}, w \in {w_}})

url_match(s_, k_) ==
    Only({IF ~literal_at(s, k, S_url_paren) THEN NoMatch
          ELSE Only({IF char_at(s, k + 4 + w) \in Quotes
                     THEN url_match_quoted(s, k + 4 + w)
                     ELSE url_match_bare(s, k + 4 + w, w)
                     : w \in {run_in(s, k + 4, Whitespace)}})
          : s \in {s_}, k \in {k_}})

\* line 349: \s*\)?\s*; at position j of s: the position of its ";", or 0
import_tail(s_, j_) ==
    Only({Only({Only({IF char_at(s, c) = ";" THEN c ELSE 0
                      : c \in {b + run_in(s, b, Whitespace)}})
                : b \in {IF char_at(s, a) = ")" THEN a + 1 ELSE a}})
          : s \in {s_}, a \in {j_ + run_in(s_, j_, Whitespace)}})

\* line 349: the first closing quote, after the opening one at b, that the rest
\* of the expression matches after: (?P<u>.*?)(?P=q)\s*\)?\s*;
import_close(s_, b_) ==
    Only({Only({IF closes = {} THEN 0
                ELSE CHOOSE c \in closes : \A d \in closes : c <= d
                : closes \in {{c \in (b + 1)..Len(s) :
                                  s[c] = s[b] /\ import_tail(s, c + 1) # 0}}})
          : s \in {s_}, b \in {b_}})

\* line 349: (?i)@import\s+(?:url\()?\s*(?P<q>["'])(?P<u>.*?)(?P=q)\s*\)?\s*;
\* at position k of s
import_match(s_, k_) ==
    Only({IF ~literal_at(s, k, S_at_import) THEN NoMatch
          ELSE Only({IF w = 0 THEN NoMatch
                     ELSE Only({IF char_at(s, b) \notin Quotes THEN NoMatch
                                ELSE Only({IF c = 0 THEN NoMatch
                                           ELSE [end |-> import_tail(s, c + 1), q |-> << s[b] >>,
                                                 u |-> SubSeq(s, b + 1, c - 1)]
                                           : c \in {import_close(s, b)}})
                                : b \in {Only({a + run_in(s, a, Whitespace)
                                               : a \in {IF literal_at(s, k + 7 + w, S_url_paren)
                                                        THEN k + 11 + w ELSE k + 7 + w}})}})
                     : w \in {run_in(s, k + 7, Whitespace)}})
          : s \in {s_}, k \in {k_}})

\* ------------------------------------------------------------------------
\* The rewriting passes
\* ------------------------------------------------------------------------

\* sep.join(parts), for a separator of any length
RECURSIVE join_with(_, _)
join_with(parts_, sep) ==
    Only({IF Len(parts) = 0 THEN << >>
          ELSE IF Len(parts) = 1 THEN parts[1]
          ELSE parts[1] \o sep \o join_with(Tail(parts), sep) : parts \in {parts_}})

\* p.split()
RECURSIVE split_ws(_)
split_ws(p_) ==
    Only({IF Len(p) = 0 THEN << >>
          ELSE Only({<< Take(p, n) >> \o split_ws(Drop(p, n))
                     : n \in {run_out(p, 1, Whitespace)}})
          : p \in {lstrip(p_, Whitespace)}})

\* lines 296-302: one candidate of a srcset, "url 2x" or "url 640w"
srcset_part(p_, domains, rel_prefix) ==
    Only({Only({strip(_rewrite_one_url_value(toks[1], domains, rel_prefix)
                          \o (IF rest # << >> THEN << " " >> \o rest ELSE << >>))
                : rest \in {join(Tail(toks), " ")}})
          : toks \in {split_ws(p_)}})

\* lines 290-302: the candidates of a srcset, rewritten
RECURSIVE srcset_parts(_, _, _)
srcset_parts(parts_, domains, rel_prefix) ==
    Only({IF Len(parts) = 0 THEN << >>
          ELSE IF strip(parts[1]) = << >> THEN srcset_parts(Tail(parts), domains, rel_prefix)
          ELSE << srcset_part(strip(parts[1]), domains, rel_prefix) >>
                   \o srcset_parts(Tail(parts), domains, rel_prefix)
          : parts \in {parts_}})

\* lines 287-303
repl_srcset(m_, domains, rel_prefix) ==
    Only({S_srcset \o << "=" >> \o m.q
              \o join_with(srcset_parts(split(m.val, ","), domains, rel_prefix), << ",", " " >>)
              \o m.q : m \in {m_}})

\* The position of the first match at or after position k of s: 0 when there is none
srcset_first(s_, k_) ==
    Only({Only({IF found = {} THEN 0 ELSE CHOOSE j \in found : \A d \in found : j <= d
                : found \in {{j \in k..Len(s) : attr_match(s, j, {S_srcset}).end # 0}}})
          : s \in {s_}, k \in {k_}})

\* line 305: re.sub of the srcset expression, from position k of s on
RECURSIVE srcset_sub(_, _, _, _)
srcset_sub(s_, k_, domains, rel_prefix) ==
    Only({Only({IF j = 0 THEN Drop(s, k - 1)
                ELSE Only({SubSeq(s, k, j - 1) \o repl_srcset(m, domains, rel_prefix)
                               \o srcset_sub(s, m.end + 1, domains, rel_prefix)
                           : m \in {attr_match(s, j, {S_srcset})}})
                : j \in {srcset_first(s, k)}})
          : s \in {s_}, k \in {k_}})

\* lines 320-325
repl_attr(m_, domains, rel_prefix) ==
    Only({m.name \o << "=" >> \o m.q \o _rewrite_one_url_value(m.val, domains, rel_prefix)
              \o m.q : m \in {m_}})

\* The position of the first match at or after position k of s: 0 when there is none
attr_first(s_, k_) ==
    Only({Only({IF found = {} THEN 0 ELSE CHOOSE j \in found : \A d \in found : j <= d
                : found \in {{j \in k..Len(s) : attr_match(s, j, attrs).end # 0}}})
          : s \in {s_}, k \in {k_}})

\* line 327: attr_re.sub, from position k of s on
RECURSIVE attr_sub(_, _, _, _)
attr_sub(s_, k_, domains, rel_prefix) ==
    Only({Only({IF j = 0 THEN Drop(s, k - 1)
                ELSE Only({SubSeq(s, k, j - 1) \o repl_attr(m, domains, rel_prefix)
                               \o attr_sub(s, m.end + 1, domains, rel_prefix)
                           : m \in {attr_match(s, j, attrs)}})
                : j \in {attr_first(s, k)}})
          : s \in {s_}, k \in {k_}})

\* lines 340-344
repl_url(m_, domains, rel_prefix) ==
    Only({S_url_paren \o m.q \o _rewrite_one_url_value(m.u, domains, rel_prefix) \o m.q
              \o << ")" >> : m \in {m_}})

\* The position of the first match at or after position k of s: 0 when there is none
url_first(s_, k_) ==
    Only({Only({IF found = {} THEN 0 ELSE CHOOSE j \in found : \A d \in found : j <= d
                : found \in {{j \in k..Len(s) : url_match(s, j).end # 0}}})
          : s \in {s_}, k \in {k_}})

\* line 346: url_re.sub, from position k of s on
RECURSIVE url_sub(_, _, _, _)
url_sub(s_, k_, domains, rel_prefix) ==
    Only({Only({IF j = 0 THEN Drop(s, k - 1)
                ELSE Only({SubSeq(s, k, j - 1) \o repl_url(m, domains, rel_prefix)
                               \o url_sub(s, m.end + 1, domains, rel_prefix)
                           : m \in {url_match(s, j)}})
                : j \in {url_first(s, k)}})
          : s \in {s_}, k \in {k_}})

\* lines 351-355
repl_imp(m_, domains, rel_prefix) ==
    Only({S_at_import \o << " " >> \o m.q
              \o _rewrite_one_url_value(m.u, domains, rel_prefix) \o m.q \o << ";" >>
          : m \in {m_}})

\* The position of the first match at or after position k of s: 0 when there is none
imp_first(s_, k_) ==
    Only({Only({IF found = {} THEN 0 ELSE CHOOSE j \in found : \A d \in found : j <= d
                : found \in {{j \in k..Len(s) : import_match(s, j).end # 0}}})
          : s \in {s_}, k \in {k_}})

\* line 357: imp_re.sub, from position k of s on
RECURSIVE imp_sub(_, _, _, _)
imp_sub(s_, k_, domains, rel_prefix) ==
    Only({Only({IF j = 0 THEN Drop(s, k - 1)
                ELSE Only({SubSeq(s, k, j - 1) \o repl_imp(m, domains, rel_prefix)
                               \o imp_sub(s, m.end + 1, domains, rel_prefix)
                           : m \in {import_match(s, j)}})
                : j \in {imp_first(s, k)}})
          : s \in {s_}, k \in {k_}})

rewrite_css_urls_in_text(css_text, page_dir, site_root, domains) ==
    Only({imp_sub(url_sub(css_text, 1, domains, rel_prefix), 1, domains, rel_prefix)
          : rel_prefix \in {_posix_relpath(page_dir, site_root)}})

rewrite_html(html, page_dir, site_root, domains) ==
    Only({rewrite_css_urls_in_text(
              attr_sub(srcset_sub(html, 1, domains, rel_prefix), 1, domains, rel_prefix),
              page_dir, site_root, domains)
          : rel_prefix \in {_posix_relpath(page_dir, site_root)}})

\* ------------------------------------------------------------------------
\* The rewriter, on the values and texts of the model
\* ------------------------------------------------------------------------

\* " //evil.com/x ": a URL of another host, with white space around it
V_external_padded ==
    << " ", "/", "/", "e", "v", "i", "l", ".", "c", "o", "m", "/", "x", " " >>

\* The URL values of the model
Values ==
    {
        \* (the empty string)
        << >>,
        \* #top
        << "#", "t", "o", "p" >>,
        \* mailto:a@b.c
        << "m", "a", "i", "l", "t", "o", ":", "a", "@", "b", ".", "c" >>,
        \* JavaScript:void(0)
        << "J", "a", "v", "a", "S", "c", "r", "i", "p", "t", ":", "v", "o", "i", "d", "(",
           "0", ")" >>,
        \* http://evil.com/x
        << "h", "t", "t", "p", ":", "/", "/", "e", "v", "i", "l", ".", "c", "o", "m", "/",
           "x" >>,
        \* https://web.archive.org/web/2020/http://evil.com/x
        << "h", "t", "t", "p", "s", ":", "/", "/", "w", "e", "b", ".", "a", "r", "c", "h",
           "i", "v", "e", ".", "o", "r", "g", "/", "w", "e", "b", "/", "2", "0", "2", "0",
           "/", "h", "t", "t", "p", ":", "/", "/", "e", "v", "i", "l", ".", "c", "o", "m",
           "/", "x" >>,
        \* https://dodmayak.org
        << "h", "t", "t", "p", "s", ":", "/", "/", "d", "o", "d", "m", "a", "y", "a", "k",
           ".", "o", "r", "g" >>,
        \* https://www.dodmayak.org/docs/file?v=1#f
        << "h", "t", "t", "p", "s", ":", "/", "/", "w", "w", "w", ".", "d", "o", "d", "m",
           "a", "y", "a", "k", ".", "o", "r", "g", "/", "d", "o", "c", "s", "/", "f", "i",
           "l", "e", "?", "v", "=", "1", "#", "f" >>,
        \* https://dodmayak.org//x
        << "h", "t", "t", "p", "s", ":", "/", "/", "d", "o", "d", "m", "a", "y", "a", "k",
           ".", "o", "r", "g", "/", "/", "x" >>,
        \* https://dodmayak.org/http://x/y
        << "h", "t", "t", "p", "s", ":", "/", "/", "d", "o", "d", "m", "a", "y", "a", "k",
           ".", "o", "r", "g", "/", "h", "t", "t", "p", ":", "/", "/", "x", "/", "y" >>,
        \* https://DODMAYAK.org/a
        << "h", "t", "t", "p", "s", ":", "/", "/", "D", "O", "D", "M", "A", "Y", "A", "K",
           ".", "o", "r", "g", "/", "a" >>,
        \* https://web.archive.org/web/2020im_/http://dodmayak.org/a
        << "h", "t", "t", "p", "s", ":", "/", "/", "w", "e", "b", ".", "a", "r", "c", "h",
           "i", "v", "e", ".", "o", "r", "g", "/", "w", "e", "b", "/", "2", "0", "2", "0",
           "i", "m", "_", "/", "h", "t", "t", "p", ":", "/", "/", "d", "o", "d", "m", "a",
           "y", "a", "k", ".", "o", "r", "g", "/", "a" >>,
        \* /a/b
        << "/", "a", "/", "b" >>,
        \* wp-content/x.css
        << "w", "p", "-", "c", "o", "n", "t", "e", "n", "t", "/", "x", ".", "c", "s", "s" >>,
        \* img/x.png
        << "i", "m", "g", "/", "x", ".", "p", "n", "g" >>,
        \* //dodmayak.org/a
        << "/", "/", "d", "o", "d", "m", "a", "y", "a", "k", ".", "o", "r", "g", "/", "a" >>,
        V_external_padded, U_a, U_docs, U_docs_slash, U_docs_file, U_a_query, U_esc
    }

\* The HTML and CSS texts of the model
Texts ==
    {
        \* <a href="https://dodmayak.org//x">
        << "<", "a", " ", "h", "r", "e", "f", "=", "\"", "h", "t", "t", "p", "s", ":", "/",
           "/", "d", "o", "d", "m", "a", "y", "a", "k", ".", "o", "r", "g", "/", "/", "x",
           "\"", ">" >>,
        \* <img src='/a.png' srcset="/a 2x, http://dodmayak.org/b 1x">
        << "<", "i", "m", "g", " ", "s", "r", "c", "=", "'", "/", "a", ".", "p", "n", "g",
           "'", " ", "s", "r", "c", "s", "e", "t", "=", "\"", "/", "a", " ", "2", "x", ",",
           " ", "h", "t", "t", "p", ":", "/", "/", "d", "o", "d", "m", "a", "y", "a", "k",
           ".", "o", "r", "g", "/", "b", " ", "1", "x", "\"", ">" >>,
        \* <p style="background:url( 'http://dodmayak.org/a.png' )">
        << "<", "p", " ", "s", "t", "y", "l", "e", "=", "\"", "b", "a", "c", "k", "g", "r",
           "o", "u", "n", "d", ":", "u", "r", "l", "(", " ", "'", "h", "t", "t", "p", ":",
           "/", "/", "d", "o", "d", "m", "a", "y", "a", "k", ".", "o", "r", "g", "/", "a",
           ".", "p", "n", "g", "'", " ", ")", "\"", ">" >>,
        \* @import url("/a.css");
        << "@", "i", "m", "p", "o", "r", "t", " ", "u", "r", "l", "(", "\"", "/", "a", ".",
           "c", "s", "s", "\"", ")", ";" >>,
        \* a{b:url(https://dodmayak.org//x)}
        << "a", "{", "b", ":", "u", "r", "l", "(", "h", "t", "t", "p", "s", ":", "/", "/",
           "d", "o", "d", "m", "a", "y", "a", "k", ".", "o", "r", "g", "/", "/", "x", ")",
           "}" >>,
        \* <A HREF = '/x' data-src="wp-content/y">
        << "<", "A", " ", "H", "R", "E", "F", " ", "=", " ", "'", "/", "x", "'", " ", "d",
           "a", "t", "a", "-", "s", "r", "c", "=", "\"", "w", "p", "-", "c", "o", "n", "t",
           "e", "n", "t", "/", "y", "\"", ">" >>,
        \* <a href="http://evil.com/x">
        << "<", "a", " ", "h", "r", "e", "f", "=", "\"", "h", "t", "t", "p", ":", "/", "/",
           "e", "v", "i", "l", ".", "c", "o", "m", "/", "x", "\"", ">" >>
    }

\* The directories of the pages of the model, one under the other
PageSegments == << << "d", "o", "c", "s" >>, << "a" >>, << "b" >>, << "c" >>, << "d" >> >>

\* How deep under docs_root the rewritten page is, at most
MaxDepth == 2

\* The local paths of the pages that are rewritten: index.html, docs/index.html, ...
Pages == {join(SubSeq(PageSegments, 1, n) \o << S_index_html >>, "/") : n \in 0..MaxDepth}

\* main, lines 500 and 555: os.path.dirname(local_abs) of the page
page_dir == dirname(path_join(docs_root, page))

\* The rewriter applied to the input as one URL value
RewriteOneUrlValue ==
    /\ rpc = "idle"
    /\ out1' = _rewrite_one_url_value(input, domain_set, _posix_relpath(page_dir, docs_root))
    /\ rpc' = "url"
    /\ UNCHANGED << input, page, mimetype, out2 >>
    /\ UNCHANGED << records, no_rewrite, keep_age_gate, pc, chosen, seen_paths, dir_prefixes >>
    /\ UNCHANGED loop_vars

\* The rewriter applied to its own output
RewriteOneUrlValueAgain ==
    /\ rpc = "url"
    /\ out2' = _rewrite_one_url_value(out1, domain_set, _posix_relpath(page_dir, docs_root))
    /\ rpc' = "url_again"
    /\ UNCHANGED << input, page, mimetype, out1 >>
    /\ UNCHANGED << records, no_rewrite, keep_age_gate, pc, chosen, seen_paths, dir_prefixes >>
    /\ UNCHANGED loop_vars

\* main, line 556: the input rewritten as the HTML of the page
RewriteHtml ==
    /\ rpc = "idle"
    /\ out1' = rewrite_html(input, page_dir, docs_root, domain_set)
    /\ rpc' = "html"
    /\ UNCHANGED << input, page, mimetype, out2 >>
    /\ UNCHANGED << records, no_rewrite, keep_age_gate, pc, chosen, seen_paths, dir_prefixes >>
    /\ UNCHANGED loop_vars

\* rewrite_html applied to its own output
RewriteHtmlAgain ==
    /\ rpc = "html"
    /\ out2' = rewrite_html(out1, page_dir, docs_root, domain_set)
    /\ rpc' = "html_again"
    /\ UNCHANGED << input, page, mimetype, out1 >>
    /\ UNCHANGED << records, no_rewrite, keep_age_gate, pc, chosen, seen_paths, dir_prefixes >>
    /\ UNCHANGED loop_vars

\* main, line 565: the input rewritten as the text of a style sheet
RewriteCss ==
    /\ rpc = "idle"
    /\ out1' = rewrite_css_urls_in_text(input, page_dir, docs_root, domain_set)
    /\ rpc' = "css"
    /\ UNCHANGED << input, page, mimetype, out2 >>
    /\ UNCHANGED << records, no_rewrite, keep_age_gate, pc, chosen, seen_paths, dir_prefixes >>
    /\ UNCHANGED loop_vars

\* rewrite_css_urls_in_text applied to its own output
RewriteCssAgain ==
    /\ rpc = "css"
    /\ out2' = rewrite_css_urls_in_text(out1, page_dir, docs_root, domain_set)
    /\ rpc' = "css_again"
    /\ UNCHANGED << input, page, mimetype, out1 >>
    /\ UNCHANGED << records, no_rewrite, keep_age_gate, pc, chosen, seen_paths, dir_prefixes >>
    /\ UNCHANGED loop_vars

\* The rewriter and the mapper, on every value, page and content type of the model
InitRewrite ==
    /\ input \in Values \cup Texts
    /\ page \in Pages
    /\ mimetype \in {S_text_html, S_text_css, S_image_png}
    /\ out1 = << >>
    /\ out2 = << >>
    /\ rpc = "idle"
    /\ records = << >>
    /\ no_rewrite = FALSE
    /\ keep_age_gate = FALSE
    /\ pc = "rewrite"
    /\ chosen = << >>
    /\ seen_paths = {}
    /\ dir_prefixes = {}
    /\ files = {}
    /\ dirs = {}
    /\ InitLoop

NextRewrite ==
    \/ RewriteOneUrlValue
    \/ RewriteOneUrlValueAgain
    \/ RewriteHtml
    \/ RewriteHtmlAgain
    \/ RewriteCss
    \/ RewriteCssAgain

SpecRewrite == InitRewrite /\ [][NextRewrite]_vars

\* ------------------------------------------------------------------------
\* Properties of the Selection Set
\* ------------------------------------------------------------------------

\* The dedup step and the conflict pass are over
Selected == pc \in {"loop", "fetch", "store", "done"}

\* The local paths of the Selection Set
ChosenPaths == {chosen[k].lp : k \in DOMAIN chosen}

\* C1: after the dedup step and the conflict pass, no chosen local path is a
\* directory prefix (the join of a strict, non-empty initial run of segments)
\* of another chosen local path.
C1_NoPathIsDirectoryOfAnother ==
    Selected =>
        \A a, b \in DOMAIN chosen : chosen[a].lp \notin prefixes_of(chosen[b].lp)

\* C2: after the dedup step and the conflict pass, no two records of the
\* Selection Set have the same local path.
C2_LocalPathsUnique ==
    Selected =>
        \A a, b \in DOMAIN chosen : a # b => chosen[a].lp # chosen[b].lp

S_docs_index_html ==
    << "d", "o", "c", "s", "/", "i", "n", "d", "e", "x", ".", "h", "t", "m", "l" >>

\* The records of /docs/file, of any of the content types of the model
DocsFileRecords == {R_docs_file, R_docs_file_html, R_docs_file_css}

\* The two records of the example: /docs (text/html) and /docs/file
DocsExample ==
    \E f \in DocsFileRecords : records = << R_docs, f >> \/ records = << f, R_docs >>

\* The path the mapper gave the k-th chosen record, before the conflict pass
MappedPath(k) == _local_path_for_original(chosen[k].rec.original, chosen[k].rec.mimetype)

\* C10: as the spec states it, given the records /docs (text/html) and
\* /docs/file, the conflict pass renames the local path of /docs.
C10_PassRenamesDocs ==
    (Selected /\ DocsExample) =>
        \E k \in DOMAIN chosen : chosen[k].rec = R_docs /\ chosen[k].lp # MappedPath(k)

\* C10: as the code has it, given the records /docs (text/html) and /docs/file, the mapper
\* gives /docs the path docs/index.html, the conflict pass renames neither
\* record, and neither final path is the other or a directory of the other.
C10_DocsMappedUnderIndex ==
    (Selected /\ DocsExample) =>
        /\ Len(chosen) = 2
        /\ \A k \in DOMAIN chosen :
            /\ chosen[k].lp = MappedPath(k)
            /\ chosen[k].rec = R_docs => chosen[k].lp = S_docs_index_html
        /\ \A a, b \in DOMAIN chosen :
            /\ a # b => chosen[a].lp # chosen[b].lp
            /\ chosen[a].lp \notin prefixes_of(chosen[b].lp)

\* The example has gone through the conflict pass, which had directories to look at
C10_Witness ==
    /\ Selected
    /\ records = << R_docs, R_docs_file >>
    /\ dir_prefixes # {}
    /\ Len(chosen) = 2

\* ------------------------------------------------------------------------
\* Properties of the download loop
\* ------------------------------------------------------------------------

\* The exceptions the retry loop tries again: the five HTTP statuses, URLError
Transient(e) ==
    \/ e.type = "HTTPError" /\ e.code \in {429, 500, 502, 503, 504}
    \/ e.type = "URLError"

\* The entry of the error log for the record at the loop's position
FailureEntry(e) ==
    [original |-> chosen[i].rec.original, local_path |-> chosen[i].lp, error |-> e.type]

PositionOf(entry) == CHOOSE k \in DOMAIN chosen : chosen[k].rec.original = entry.original

\* The positions of the entries of a log
Positions(log) == {PositionOf(log[k]) : k \in DOMAIN log}

\* The entries of a log are about records of chosen, in the order of chosen
InOrder(log) ==
    /\ \A k \in DOMAIN log : \E j \in DOMAIN chosen :
           chosen[j].rec.original = log[k].original /\ chosen[j].lp = log[k].local_path
    /\ \A a, b \in DOMAIN log : a < b => PositionOf(log[a]) < PositionOf(log[b])

\* The records before the loop's position
Done == 1..(i - 1)

\* C4: once the index query has succeeded, whatever fetch, decode or write
\* failures occur, the loop goes on: at each position every record before it
\* was processed exactly once, in the order of the Selection Set, and counted
\* in exactly one of ok, skipped and failed; the run is never aborted, and at
\* the end ok + skipped + failed = total_selected.
C4_EveryRecordCountedOnce ==
    Selected =>
        /\ total = Len(chosen)
        /\ i \in 1..(total + 1)
        /\ ok + skipped + failed = i - 1
        /\ Len(index_f) = ok + skipped
        /\ Len(err_f) = failed
        /\ Cardinality({k \in DOMAIN index_f : index_f[k].skipped}) = skipped
        /\ InOrder(index_f)
        /\ InOrder(err_f)
        /\ Positions(index_f) \cap Positions(err_f) = {}
        /\ Positions(index_f) \cup Positions(err_f) = Done
        /\ pc # "done" => ENABLED Next
        /\ pc = "done" => ok + skipped + failed = total

\* A run that ended after a failure, a skip and a success
C4_Witness ==
    /\ pc = "done"
    /\ total >= 2
    /\ failed >= 1
    /\ ok + skipped >= 1

\* C5: when the run completes, the exit status is non-zero if and only if at
\* least one record was recorded as failed; skipped records do not count.
C5_ExitStatusTellsFailure ==
    pc = "done" =>
        /\ exit_status # 0 <=> failed > 0
        /\ failed > 0 <=> err_f # << >>

\* A run that ended with a skipped record and a failed one
C5_Witness ==
    /\ pc = "done"
    /\ skipped >= 1
    /\ failed >= 1
    /\ exit_status # 0

\* The entry of the index for a record that was skipped
SkippedEntry(rec, lp) ==
    [original |-> rec.original, local_path |-> lp, skipped |-> TRUE, rewritten |-> FALSE]

\* C11: at each record of the Selection Set, a destination that is a regular
\* file already counts the record as skipped and logs it to the index with
\* the skipped flag, with no fetch attempt and no write under docs/; a
\* destination that exists and is no regular file records a failure in the
\* error log, with no fetch attempt; in both cases the run goes on with the
\* next record.
C11_ExistingDestination ==
    [][(pc = "loop" /\ i <= total) =>
        \E rec \in {chosen[i].rec}, lp \in {chosen[i].lp} :
            /\ lp \in files =>
                /\ skipped' = skipped + 1
                /\ index_f' = Append(index_f, SkippedEntry(rec, lp))
                /\ UNCHANGED << ok, failed, err_f, rewritten_html, rewritten_css >>
                /\ UNCHANGED << attempt, files, dirs >>
                /\ pc' = "loop" /\ i' = i + 1
            /\ lp \in dirs =>
                /\ failed' = failed + 1
                /\ err_f' = Append(err_f, FailureEntry(Exc("IsADirectoryError", 0)))
                /\ UNCHANGED << ok, skipped, index_f, rewritten_html, rewritten_css >>
                /\ UNCHANGED << attempt, files, dirs >>
                /\ pc' = "loop" /\ i' = i + 1]_vars

\* A run whose first destination was a directory and whose second was a file
C11_Witness ==
    /\ pc = "done"
    /\ total = 2
    /\ failed = 1 /\ skipped = 1 /\ ok = 0
    /\ err_f = << [original |-> chosen[1].rec.original, local_path |-> chosen[1].lp,
                   error |-> "IsADirectoryError"] >>
    /\ index_f = << SkippedEntry(chosen[2].rec, chosen[2].lp) >>
    /\ chosen[1].lp \in dirs
    /\ chosen[2].lp \in files

\* C12: in every state of the download loop rewritten_html + rewritten_css
\* is at most ok, so that a record whose write fails after the rewrite is in
\* neither of the two counters.
C12_RewrittenAtMostOk ==
    rewritten_html + rewritten_css <= ok
\* ------------------------------------------------------------------------
\* Properties of the rewriter
\* ------------------------------------------------------------------------

\* An absolute URL, http or https, whose host is in the domain scope
InScopeAbsolute(u_) ==
    \E u \in {u_} :
        /\ startswith(u, S_http) \/ startswith(u, S_https)
        /\ lower(urlsplit(u).netloc) \in domain_set

\* The path under docs_root that a reference of a page in directory dir points
\* to: the path of the reference, unquoted, taken from docs_root when it begins
\* with "/" and from dir when it does not, with "." and ".." resolved.  A
\* reference with a scheme or a host points outside docs_root.
Outside == << "*" >>

Resolve(dir, ref_) ==
    Only({IF ref.scheme # << >> \/ ref.netloc # << >> THEN Outside
          ELSE relpath(path_join(IF startswith(ref.path, << "/" >>) THEN docs_root ELSE dir,
                                 lstrip(unquote(ref.path), {"/"})),
                       docs_root)
          : ref \in {urlsplit(ref_)}})

\* C6: for every absolute URL u whose host is in the domain scope, every content
\* type and every page directory under the output root, the rewritten value of
\* u, resolved against the directory of the rewriting page, is the local path
\* the mapper assigns to u.
C6_RewrittenPointsToLocalPath ==
    (rpc = "url" /\ InScopeAbsolute(input)) =>
        Resolve(page_dir, out1) = _local_path_for_original(input, mimetype)

\* C7: for every absolute URL u whose host is in the domain scope and every
\* relative prefix, the empty one included, the rewritten value of u starts
\* neither with http:// nor with https://.
C7_RewrittenNeverAbsolute ==
    (rpc = "url" /\ InScopeAbsolute(input)) =>
        ~startswith(out1, S_http) /\ ~startswith(out1, S_https)

\* A URL, absolute or protocol-relative, archive-wrapped or not, whose host (the
\* host of the wrapped URL, for a wrapped one) is outside the domain scope
ExternalHost(v_) ==
    \E v \in {v_} :
        \E w \in {IF _extract_original_from_wayback(v) # None
                  THEN _extract_original_from_wayback(v) ELSE v} :
            \E a \in {IF startswith(w, << "/", "/" >>) THEN S_https_colon \o w ELSE w} :
                /\ startswith(a, S_http) \/ startswith(a, S_https)
                /\ lower(urlsplit(a).netloc) \notin domain_set

\* The values the rewriter is to leave alone: empty, a fragment, a skip scheme,
\* a URL of another host; white space around the value does not count
OutOfScope(value_) ==
    \E v \in {strip(value_)} :
        \/ v = << >>
        \/ startswith(v, << "#" >>)
        \/ \E scheme \in skip_schemes : startswith(lower(v), scheme)
        \/ ExternalHost(v)

\* C8: for every out-of-scope input value (a URL of a host outside the domain
\* scope, absolute, protocol-relative or archive-wrapped; a value that starts
\* with a skip scheme; a fragment; the empty string), the rewriter returns the
\* input string, character for character.
C8_OutOfScopeUnchanged ==
    (rpc = "url" /\ OutOfScope(input)) => out1 = input

\* A protocol-relative URL of another host, with white space around it, was rewritten
C8_Witness ==
    /\ rpc = "url"
    /\ input = V_external_padded
    /\ OutOfScope(input)
    /\ strip(input) # input

\* C9: the rewriting passes are idempotent: rewrite_html applied to its own
\* output returns it unchanged, so does rewrite_css_urls_in_text, and so does
\* the rewriter of one URL value.
C9_RewriteIdempotent ==
    rpc \in {"url_again", "html_again", "css_again"} => out2 = out1

====
